---- MODULE Spec2Model ----
(***************************************************************************)
(* A model of cod2factoriolab.py: the conversion of a Captain-of-Data     *)
(* dump (products.json, machines_and_buildings.json) into a Factoriolab   *)
(* data.json.                                                              *)
(*                                                                         *)
(* Identifiers (the strings the regular expressions and chr() work on)    *)
(* are sequences of Unicode code points, so that the translator, the      *)
(* matchers and the suffix rule are computed character by character.      *)
(* Display names and icon paths are only ever compared and used as dict   *)
(* keys in the program; they are TLA+ strings.  A Python dict is a        *)
(* function on its key set.                                                *)
(***************************************************************************)
EXTENDS Integers, Sequences, FiniteSets, TLC

VARIABLES
    pc,          \* position of the script: start, products, buildings, recipes, done
    version,     \* game_version of products.json (line 106)
    gameVersion, \* inData['game_version'] of the document loaded last (lines 105, 142)
    ids,         \* line 90
    iconList,    \* line 91
    prodList,    \* line 92
    prodIndex,   \* line 93
    mnbList,     \* line 94
    recipeIds,   \* line 95
    recipeList,  \* line 96
    item,        \* loop variable of lines 108 and 148
    recipe,      \* loop variable of line 188
    r,           \* the dict under construction (lines 126, 157, 199)
    flabID,      \* lines 122 and 152
    exitCode,    \* outcome of the process: "running", then "0" or "1"
    output,      \* out/data.json: the documents written, in order
    nProd,       \* entries of inData['products'] consumed
    nBld,        \* entries of inData['machines_and_buildings'] consumed
    nRec,        \* recipe entries consumed, over all buildings
    op,          \* the statement block executed last
    codName,     \* argument of a single convertCod2FL call
    translated,  \* its result
    ingredients, \* argument of a single convertIngredientList call
    ret          \* its outcome: the value returned or the error raised

vars == <<pc, version, gameVersion, ids, iconList, prodList, prodIndex, mnbList, recipeIds,
          recipeList, item, recipe, r, flabID, exitCode, output, nProd, nBld,
          nRec, op, codName, translated, ingredients, ret>>

(***************************************************************************)
(* Bounds of the model                                                     *)
(***************************************************************************)
MaxProducts == 2
MaxBuildings == 2
MaxRecipes == 3
MaxLen == 3
MaxIngredients == 2
MaxCollide == 1537

(***************************************************************************)
(* Characters                                                              *)
(***************************************************************************)
Hyphen == 45
ChrBase == 95
CaseOffset == 32

Upper == 65..90                    \* [A-Z]
Lower == 97..122                   \* [a-z]
AsciiDigit == 48..57               \* [0-9]
\* \d of a str pattern is any Unicode decimal digit (category Nd): 0-9, the
\* Arabic-Indic digits U+0660..U+0669, and further ranges above these.
ArabicIndicDigit == 1632..1641
Digit == AsciiDigit \cup ArabicIndicDigit

\* str.lower on one code point of a token: A-Z shift, the rest is unchanged.
LowerChar(c) == IF c \in Upper THEN c + CaseOffset ELSE c

lower(s) == [i \in 1..Len(s) |-> LowerChar(s[i])]

\* str.join
RECURSIVE join(_, _)
join(sep, parts) ==
    IF parts = <<>> THEN <<>>
    ELSE IF Len(parts) = 1 THEN parts[1]
    ELSE parts[1] \o sep \o join(sep, Tail(parts))

\* The number of consecutive characters of s from position i that are in cls.
RECURSIVE RunLen(_, _, _)
RunLen(s, i, cls) ==
    IF i <= Len(s) /\ s[i] \in cls THEN 1 + RunLen(s, i + 1, cls) ELSE 0

\* s has the literal lit at position i.
HasAt(s, i, lit) ==
    /\ i + Len(lit) - 1 <= Len(s)
    /\ \A k \in 1..Len(lit) : s[i + k - 1] = lit[k]

(***************************************************************************)
(* REX_CoDNaming = [A-Z][a-z]+ | [A-Z]{2,} | \d[A-Z]?                      *)
(***************************************************************************)
\* The length of the match of REX_CoDNaming that starts at position i, 0 when
\* there is none.  The alternatives are tried in order and each is greedy.
MatchLenAt(s, i) ==
    IF s[i] \in Upper /\ RunLen(s, i + 1, Lower) >= 1
        THEN 1 + RunLen(s, i + 1, Lower)
    ELSE IF s[i] \in Upper /\ RunLen(s, i, Upper) >= 2
        THEN RunLen(s, i, Upper)
    ELSE IF s[i] \in Digit
        THEN 1 + (IF RunLen(s, i + 1, Upper) >= 1 THEN 1 ELSE 0)
    ELSE 0

\* REX_CoDNaming.findall(s) from position i: the non-overlapping matches, left
\* to right; a position with no match is passed over.
RECURSIVE findallFrom(_, _)
findallFrom(s, i) ==
    IF i > Len(s) THEN <<>>
    ELSE LET n == MatchLenAt(s, i)
         IN  IF n = 0 THEN findallFrom(s, i + 1)
             ELSE <<SubSeq(s, i, i + n - 1)>> \o findallFrom(s, i + n)

findall(s) == findallFrom(s, 1)

convertCod2FL(s) == lower(join(<<Hyphen>>, findall(s)))

(***************************************************************************)
(* String literals of the program, as code points                         *)
(***************************************************************************)
STR_worker == <<119, 111, 114, 107, 101, 114>>                           \* 'worker'
STR_electricity == <<101, 108, 101, 99, 116, 114, 105, 99, 105, 116, 121>> \* 'electricity'
STR_virtual == <<118, 105, 114, 116, 117, 97, 108>>                      \* 'virtual'
STR_buildings == <<98, 117, 105, 108, 100, 105, 110, 103, 115>>          \* 'buildings'
STR_Product_ == <<80, 114, 111, 100, 117, 99, 116, 95>>                  \* 'Product_'
STR_Virtual_ == <<86, 105, 114, 116, 117, 97, 108, 95>>                  \* 'Virtual_'
STR_ProductProto == <<80, 114, 111, 100, 117, 99, 116, 80, 114, 111, 116, 111>> \* 'ProductProto'

\* The keys of PRODUCT_TYPES, in order, with their category name and icon.
PRODUCT_TYPES ==
    << [key |-> <<67, 111, 117, 110, 116, 97, 98, 108, 101>>,    \* 'Countable'
        name |-> "Unit resources", icon |-> "iron"],
       [key |-> <<70, 108, 117, 105, 100>>,                      \* 'Fluid'
        name |-> "Fluid resources", icon |-> "water"],
       [key |-> <<76, 111, 111, 115, 101>>,                      \* 'Loose'
        name |-> "Loose resources", icon |-> "gravel"],
       [key |-> <<77, 111, 108, 116, 101, 110>>,                 \* 'Molten'
        name |-> "Molten resources", icon |-> "molten-iron"],
       [key |-> <<86, 105, 114, 116, 117, 97, 108>>,             \* 'Virtual'
        name |-> "Virtual resources", icon |-> "maintenance-1"] >>

ProductTypeKeys == {PRODUCT_TYPES[i].key : i \in 1..Len(PRODUCT_TYPES)}

\* DEFAULT_PRODUCTS = {'worker': 'Workers'}
DEFAULT_PRODUCTS == << [prod |-> STR_worker, name |-> "Workers"] >>

(***************************************************************************)
(* REX_ProdType = ([A-Z][a-z0-9]+)ProductProto, REX_Product =              *)
(* Product_(Virtual_)?([A-Za-z0-9]+), both applied with match().           *)
(***************************************************************************)
NoMatch == [matched |-> FALSE, group |-> <<>>]

\* [a-z0-9]+ is greedy and 'P' is outside the class, so group 1 ends at the
\* first character outside the class, where the literal must follow.
ProdTypeMatch(s) ==
    LET n == RunLen(s, 2, Lower \cup AsciiDigit)
    IN  IF Len(s) >= 1 /\ s[1] \in Upper /\ n >= 1 /\ HasAt(s, 2 + n, STR_ProductProto)
        THEN [matched |-> TRUE, group |-> SubSeq(s, 1, 1 + n)]
        ELSE NoMatch

\* group(2): the optional 'Virtual_' is taken when an identifier character
\* follows it; otherwise the match backtracks and the group starts right
\* after 'Product_'.
ProductMatch(s) ==
    LET cls == Upper \cup Lower \cup AsciiDigit
        p == Len(STR_Product_) + 1
        q == p + Len(STR_Virtual_)
    IN  IF ~HasAt(s, 1, STR_Product_) THEN NoMatch
        ELSE IF HasAt(s, p, STR_Virtual_) /\ RunLen(s, q, cls) >= 1
            THEN [matched |-> TRUE, group |-> SubSeq(s, q, q + RunLen(s, q, cls) - 1)]
        ELSE IF RunLen(s, p, cls) >= 1
            THEN [matched |-> TRUE, group |-> SubSeq(s, p, p + RunLen(s, p, cls) - 1)]
        ELSE NoMatch

(***************************************************************************)
(* Dicts                                                                   *)
(***************************************************************************)
EmptyDict == [k \in {} |-> 0]

\* d[k] = v
Put(d, k, v) == [x \in (DOMAIN d) \cup {k} |-> IF x = k THEN v ELSE d[x]]

\* d.get(k, default)
Get(d, k, default) == IF k \in DOMAIN d THEN d[k] ELSE default

(***************************************************************************)
(* convertIngredientList (lines 38-51)                                     *)
(***************************************************************************)
\* The loop from entry i on, with ret so far; the outcome is a raise of
\* ValueError carrying the name, or the return of ret.
RECURSIVE IngredientLoop(_, _, _)
IngredientLoop(ings, i, acc) ==
    IF i > Len(ings) THEN [raised |-> FALSE, value |-> acc]
    ELSE IF ings[i].name \notin DOMAIN prodIndex
        THEN [raised |-> TRUE, arg |-> ings[i].name]
    ELSE IngredientLoop(ings, i + 1, Put(acc, prodIndex[ings[i].name], ings[i].quantity))

\* A resolver that passes over an unknown name instead of raising.
RECURSIVE SkippingLoop(_, _, _)
SkippingLoop(ings, i, acc) ==
    IF i > Len(ings) THEN [raised |-> FALSE, value |-> acc]
    ELSE IF ings[i].name \notin DOMAIN prodIndex THEN SkippingLoop(ings, i + 1, acc)
    ELSE SkippingLoop(ings, i + 1, Put(acc, prodIndex[ings[i].name], ings[i].quantity))

convertIngredientList_Skipping(ings) == SkippingLoop(ings, 1, EmptyDict)

convertIngredientList(ings) == IngredientLoop(ings, 1, EmptyDict)

(***************************************************************************)
(* Output assembly (lines 54-87)                                           *)
(***************************************************************************)
getCategories ==
    [i \in 1..Len(PRODUCT_TYPES) |->
        [id |-> lower(PRODUCT_TYPES[i].key), name |-> PRODUCT_TYPES[i].name,
         icon |-> PRODUCT_TYPES[i].icon]]

\* Python's < on str: by code point, a proper prefix is smaller.
RECURSIVE StrLess(_, _)
StrLess(a, b) ==
    IF b = <<>> THEN FALSE
    ELSE IF a = <<>> THEN TRUE
    ELSE IF a[1] # b[1] THEN a[1] < b[1]
    ELSE StrLess(Tail(a), Tail(b))

\* sorted(seq, key=id): stable, by insertion from the left.
RECURSIVE InsertById(_, _)
InsertById(sorted, x) ==
    IF sorted = <<>> THEN <<x>>
    ELSE IF StrLess(x.id, sorted[Len(sorted)].id)
        THEN Append(InsertById(SubSeq(sorted, 1, Len(sorted) - 1), x), sorted[Len(sorted)])
    ELSE Append(sorted, x)

RECURSIVE SortedById(_)
SortedById(seq) ==
    IF seq = <<>> THEN <<>>
    ELSE InsertById(SortedById(SubSeq(seq, 1, Len(seq) - 1)), seq[Len(seq)])

ICON_STEP == 40
SHEET_WIDTH == 1216
ICON_SIZE == 64

\* The position string '-{x}px -{y}px' is kept as the pair of its numbers.
getIcons ==
    LET s == SortedById(iconList)
    IN  [i \in 1..Len(s) |->
            [id |-> s[i].id,
             position |-> << ((i - 1) * ICON_STEP) % SHEET_WIDTH,
                             (((i - 1) * ICON_STEP) \div SHEET_WIDTH) * ICON_SIZE >>,
             color |-> "#000000"]]

getItems ==
    [i \in 1..Len(prodList) |->
        [id |-> prodList[i].id, name |-> prodList[i].name,
         category |-> prodList[i].type, row |-> 0]] \o mnbList

(***************************************************************************)
(* The script                                                              *)
(***************************************************************************)
None == [none |-> TRUE]

\* Lines 90-101: the empty collections, then the default products.
InitScript ==
    /\ pc = "start"
    /\ version = None
    /\ gameVersion = None
    /\ ids = {}
    /\ iconList = <<>>
    /\ prodList = [i \in 1..Len(DEFAULT_PRODUCTS) |->
                      [id |-> DEFAULT_PRODUCTS[i].prod, name |-> DEFAULT_PRODUCTS[i].name,
                       type |-> STR_virtual]]
    /\ prodIndex = [n \in {DEFAULT_PRODUCTS[i].name : i \in 1..Len(DEFAULT_PRODUCTS)} |->
                      (CHOOSE d \in {DEFAULT_PRODUCTS[i] : i \in 1..Len(DEFAULT_PRODUCTS)} :
                          d.name = n).prod]
    /\ mnbList = <<>>
    /\ recipeIds = EmptyDict
    /\ recipeList = <<>>
    /\ item = None
    /\ recipe = None
    /\ r = None
    /\ flabID = None
    /\ exitCode = "running"
    /\ output = <<>>
    /\ nProd = 0
    /\ nBld = 0
    /\ nRec = 0
    /\ op = "init"

Init ==
    /\ InitScript
    /\ codName = None
    /\ translated = None
    /\ ingredients = None
    /\ ret = None

calls == <<codName, translated, ingredients, ret>>

\* Lines 104-106: products.json is opened and its game_version recorded.
OpenProducts(v) ==
    /\ pc = "start"
    /\ gameVersion' = v
    /\ version' = v
    /\ pc' = "products"
    /\ op' = "OpenProducts"
    /\ UNCHANGED <<ids, iconList, prodList, prodIndex, mnbList, recipeIds, recipeList,
                   item, recipe, r, flabID, exitCode, output, nProd, nBld, nRec, calls>>

\* Line 123.
DuplicateProductID(id) == id \in ids

\* A check that never finds the name registered.
DuplicateName_Never(name) == FALSE

\* Line 131.
DuplicateName(name) == name \in DOMAIN prodIndex

\* Lines 108-137: one iteration of the product loop, on the entry it.
ReadProduct(it) ==
    /\ pc = "products"
    /\ nProd' = nProd + 1
    /\ item' = it
    /\ op' = "ReadProduct"
    /\ LET res == ProdTypeMatch(it.type)
           idm == ProductMatch(it.id)
           fid == convertCod2FL(idm.group)
           rec == [id |-> fid, name |-> it.name, type |-> lower(res.group)]
       IN  IF ~res.matched \/ res.group \notin ProductTypeKeys
               THEN UNCHANGED <<flabID, r, prodList, prodIndex, iconList>>   \* Strange product type
           ELSE IF ~idm.matched
               THEN UNCHANGED <<flabID, r, prodList, prodIndex, iconList>>   \* Strange product ID
           ELSE /\ flabID' = fid
                /\ IF DuplicateProductID(fid)
                       THEN UNCHANGED <<r, prodList, prodIndex, iconList>>   \* Duplicate product ID
                   ELSE /\ r' = rec
                        /\ prodList' = Append(prodList, rec)
                        /\ IF DuplicateName(it.name)
                               THEN UNCHANGED <<prodIndex, iconList>>        \* Duplicate name
                           ELSE /\ prodIndex' = Put(prodIndex, it.name, fid)
                                /\ iconList' = Append(iconList, [id |-> fid, icon |-> it.icon_path])
    /\ UNCHANGED <<pc, version, gameVersion, ids, mnbList, recipeIds, recipeList, recipe, exitCode,
                   output, nBld, nRec, calls>>

\* A comparison that never finds a difference.
VersionDiffers_Never(v) == FALSE

\* Line 143.
VersionDiffers(v) == v # version

\* Lines 141-145: the product loop is over; machines_and_buildings.json is
\* opened with game_version v and the versions are compared.
OpenMachines(v) ==
    /\ pc = "products"
    /\ op' = "OpenMachines"
    /\ gameVersion' = v
    /\ IF VersionDiffers(v)
           THEN /\ exitCode' = "1"          \* sys.exit(1)
                /\ pc' = "done"
           ELSE /\ pc' = "buildings"
                /\ UNCHANGED exitCode
    /\ UNCHANGED <<version, ids, iconList, prodList, prodIndex, mnbList, recipeIds,
                   recipeList, item, recipe, r, flabID, output, nProd, nBld, nRec, calls>>

\* Line 153.
DuplicateBuildingID(id) == id \in ids

\* A consumption that has a worker entry whatever the number of workers.
BaseConsumption_AlwaysWorker(it) ==
    LET c1 == Put(EmptyDict, STR_worker, it.workers)
    IN  IF it.electricity_consumed > 0
            THEN Put(c1, STR_electricity, it.electricity_consumed)
            ELSE c1

\* Lines 162-168: the worker and electricity entries of r_cons.
BaseConsumption(it) ==
    LET c1 == IF it.workers > 0 THEN Put(EmptyDict, STR_worker, it.workers) ELSE EmptyDict
    IN  IF it.electricity_consumed > 0
            THEN Put(c1, STR_electricity, it.electricity_consumed)
            ELSE c1

\* Lines 171-173: the maintenance unit is named and is not in the index.
UnknownUnit(it) ==
    it.maintenance_cost_units # "" /\ it.maintenance_cost_units \notin DOMAIN prodIndex

\* Lines 170-176 when the unit resolves or is empty.
Consumption(it) ==
    IF it.maintenance_cost_units # ""
        THEN Put(BaseConsumption(it), prodIndex[it.maintenance_cost_units],
                 it.maintenance_cost_quantity)
        ELSE BaseConsumption(it)

\* Lines 148-183: the building part of one iteration of the outer loop, on the
\* entry it; its recipes follow one by one (ProcessRecipe).
ProcessBuilding(it) ==
    /\ pc = "buildings"
    /\ nBld' = nBld + 1
    /\ item' = it
    /\ op' = "ProcessBuilding"
    /\ flabID' = convertCod2FL(it.id)
    /\ LET fid == convertCod2FL(it.id)
           r0 == [id |-> fid, name |-> it.name, category |-> STR_buildings]
           r1 == [id |-> fid, name |-> it.name, category |-> STR_buildings,
                  machine |-> [speed |-> 1, consumption |-> Consumption(it)]]
       IN  IF DuplicateBuildingID(fid)
               THEN UNCHANGED <<pc, r, mnbList, iconList>>       \* Duplicate building ID
           ELSE IF UnknownUnit(it)
               THEN /\ r' = r0                                   \* Unknown maintenance unit
                    /\ UNCHANGED <<pc, mnbList, iconList>>
           ELSE /\ r' = r1
                /\ mnbList' = Append(mnbList, r1)
                /\ iconList' = Append(iconList, [id |-> fid, icon |-> it.icon_path])
                /\ pc' = "recipes"
    /\ UNCHANGED <<version, gameVersion, ids, prodList, prodIndex, recipeIds, recipeList, recipe,
                   exitCode, output, nProd, nRec, calls>>

\* A suffix that starts one letter late.
Suffixed_OneLate(rID, rCnt) == rID \o <<Hyphen, ChrBase + rCnt + 1>>

\* Line 195: the id of an occurrence after the first.
Suffixed(rID, rCnt) == rID \o <<Hyphen, ChrBase + rCnt>>

\* A test that keeps every recipe that resolved.
Retained_Always(out) == TRUE

\* Line 212.
Retained(out) == out # EmptyDict

\* Lines 188-213: one iteration of the recipe loop of the current building.
ProcessRecipe(rec) ==
    /\ pc = "recipes"
    /\ nRec' = nRec + 1
    /\ recipe' = rec
    /\ op' = "ProcessRecipe"
    /\ LET rID == convertCod2FL(rec.id)
           rCnt == Get(recipeIds, rID, 0)
           newId == IF rCnt > 0 THEN Suffixed(rID, rCnt + 1) ELSE rID
           r0 == [id |-> newId, name |-> rec.name, time |-> rec.duration,
                  producers |-> <<flabID>>, row |-> 0, icon |-> flabID]
           rin == convertIngredientList(rec.inputs)
           rout == convertIngredientList(rec.outputs)
       IN  /\ recipeIds' = Put(recipeIds, rID, IF rCnt > 0 THEN rCnt + 1 ELSE 1)
           /\ IF rin.raised
                  THEN /\ r' = r0
                       /\ UNCHANGED recipeList
              ELSE IF rout.raised
                  THEN /\ r' = [id |-> newId, name |-> rec.name, time |-> rec.duration,
                                producers |-> <<flabID>>, row |-> 0, icon |-> flabID,
                                in |-> rin.value]
                       /\ UNCHANGED recipeList
              ELSE LET r2 == [id |-> newId, name |-> rec.name, time |-> rec.duration,
                              producers |-> <<flabID>>, row |-> 0, icon |-> flabID,
                              in |-> rin.value, out |-> rout.value]
                   IN  /\ r' = r2
                       /\ recipeList' = IF Retained(r2.out) THEN Append(recipeList, r2)
                                        ELSE recipeList
    /\ UNCHANGED <<pc, version, gameVersion, ids, iconList, prodList, prodIndex, mnbList, item,
                   flabID, exitCode, output, nProd, nBld, calls>>

\* Line 188: the recipes of the current building are exhausted; the outer loop
\* goes on.
EndRecipes ==
    /\ pc = "recipes"
    /\ pc' = "buildings"
    /\ op' = "EndRecipes"
    /\ UNCHANGED <<version, gameVersion, ids, iconList, prodList, prodIndex, mnbList, recipeIds,
                   recipeList, item, recipe, r, flabID, exitCode, output, nProd, nBld,
                   nRec, calls>>

\* Lines 215-226: the buildings are exhausted; the output is assembled and written.
WriteOutput ==
    /\ pc = "buildings"
    /\ output' = Append(output, [version |-> version, categories |-> getCategories,
                                 icons |-> getIcons, items |-> getItems,
                                 recipes |-> recipeList])
    /\ exitCode' = "0"
    /\ pc' = "done"
    /\ op' = "WriteOutput"
    /\ UNCHANGED <<version, gameVersion, ids, iconList, prodList, prodIndex, mnbList, recipeIds,
                   recipeList, item, recipe, r, flabID, nProd, nBld, nRec, calls>>

\* The script's state, for the specifications of single calls.
script == <<pc, version, gameVersion, ids, iconList, prodList, mnbList, recipeIds, recipeList, item,
            recipe, r, flabID, exitCode, output, nProd, nBld, nRec>>

(***************************************************************************)
(* Calls of the two functions on their own                                 *)
(***************************************************************************)
\* convertCod2FL(codName)
Translate ==
    /\ op = "init"
    /\ translated' = convertCod2FL(codName)
    /\ op' = "Translate"
    /\ UNCHANGED <<script, prodIndex, codName, ingredients, ret>>

\* convertIngredientList(ings), against the index the product loop has built.
Resolve(ings) ==
    /\ pc = "buildings"
    /\ op = "OpenMachines"
    /\ ingredients' = ings
    /\ ret' = convertIngredientList(ings)
    /\ op' = "Resolve"
    /\ UNCHANGED <<script, prodIndex, codName, translated>>

(***************************************************************************)
(* Input documents                                                         *)
(***************************************************************************)
Versions == {"0.4.1", "0.4.2"}

ID_Product_Ab == <<80, 114, 111, 100, 117, 99, 116, 95, 65, 98>>        \* 'Product_Ab'
ID_Product_AbT == <<80, 114, 111, 100, 117, 99, 116, 95, 65, 98, 84>>   \* 'Product_AbT'
ID_Product_Cd == <<80, 114, 111, 100, 117, 99, 116, 95, 67, 100>>       \* 'Product_Cd'
ID_Product_Virtual_Worker ==                                            \* 'Product_Virtual_Worker'
    <<80, 114, 111, 100, 117, 99, 116, 95, 86, 105, 114, 116, 117, 97, 108, 95,
      87, 111, 114, 107, 101, 114>>
ID_Ab == <<65, 98>>              \* 'Ab'
ID_Cd == <<67, 100>>             \* 'Cd'
ID_Ef == <<69, 102>>             \* 'Ef'
ID_EfT == <<69, 102, 84>>        \* 'EfT'
ID_Gh == <<71, 104>>             \* 'Gh'
ID_GhT == <<71, 104, 84>>        \* 'GhT'
ID_Ij == <<73, 106>>             \* 'Ij'
ID_AbArabicZero == <<65, 98, 1632>>   \* 'Ab' followed by U+0660
TYPE_Fluid == <<70, 108, 117, 105, 100, 80, 114, 111, 100, 117, 99, 116, 80, 114, 111, 116, 111>> \* 'FluidProductProto'
TYPE_Virtual ==                                                         \* 'VirtualProductProto'
    <<86, 105, 114, 116, 117, 97, 108, 80, 114, 111, 100, 117, 99, 116, 80, 114, 111, 116, 111>>
TYPE_Bad == <<66, 97, 100, 80, 114, 111, 100, 117, 99, 116, 80, 114, 111, 116, 111>> \* 'BadProductProto'
TYPE_Bare == <<70, 108, 117, 105, 100>>                                 \* 'Fluid'

Product(type, id, name) == [type |-> type, id |-> id, name |-> name, icon_path |-> "p.png"]

\* Entries of products.json: accepted ones with equal and distinct normalized
\* ids and names, one whose id is a default product's, and the three skips.
ProductEntries ==
    { Product(TYPE_Fluid, ID_Product_Ab, "Ab"),
      Product(TYPE_Fluid, ID_Product_AbT, "Cd"),
      Product(TYPE_Fluid, ID_Product_Cd, "Ab"),
      Product(TYPE_Virtual, ID_Product_Virtual_Worker, "Workers"),
      Product(TYPE_Bad, ID_Product_Cd, "Cd"),
      Product(TYPE_Bare, ID_Product_Cd, "Cd"),
      Product(TYPE_Fluid, ID_Cd, "Cd") }

\* A fixed products.json for the specifications about buildings and recipes.
FixedProducts ==
    << Product(TYPE_Fluid, ID_Product_Ab, "Ab"), Product(TYPE_Fluid, ID_Product_Cd, "Cd") >>

FixedProductAt(n) == IF n < Len(FixedProducts) THEN {FixedProducts[n + 1]} ELSE {}

Building(id, workers, electricity, units, quantity) ==
    [id |-> id, name |-> "Plant", workers |-> workers, electricity_consumed |-> electricity,
     maintenance_cost_units |-> units, maintenance_cost_quantity |-> quantity,
     icon_path |-> "b.png"]

BuildingEntries ==
    { Building(ID_Ef, 1, 0, "", 0),
      Building(ID_Ab, 0, 2, "Ab", 3),
      Building(ID_EfT, 0, 0, "Workers", 5),
      Building(ID_Ef, 1, 2, "Zz", 3) }

PlainBuildings == { Building(ID_Ef, 1, 0, "", 0), Building(ID_Gh, 0, 2, "Ab", 3) }

Ing(name, quantity) == [name |-> name, quantity |-> quantity]

Recipe(id, inputs, outputs) ==
    [id |-> id, name |-> "Process", duration |-> 10, inputs |-> inputs, outputs |-> outputs]

RecipeEntries ==
    { Recipe(ID_Gh, <<>>, <<Ing("Ab", 1)>>),
      Recipe(ID_GhT, <<Ing("Ab", 1), Ing("Zz", 1)>>, <<Ing("Ab", 1)>>),
      Recipe(ID_Gh, <<Ing("Workers", 1)>>, <<>>),
      Recipe(ID_Ij, <<Ing("Ab", 2)>>, <<Ing("Zz", 1), Ing("Workers", 1)>>),
      Recipe(ID_Gh, <<Ing("Workers", 1), Ing("Ab", 2)>>, <<Ing("Ab", 1), Ing("Cd", 2)>>) }

PlainRecipes == { Recipe(ID_Gh, <<Ing("Ab", 1)>>, <<Ing("Ab", 1)>>) }

\* Ingredient lists of up to MaxIngredients entries.
IngredientEntries == {Ing(n, q) : n \in {"Workers", "Ab", "Cd"}, q \in {1, 2}}
IngredientLists == UNION {[1..n -> IngredientEntries] : n \in 0..MaxIngredients}

\* Identifiers of up to MaxLen characters: A B a b 2 _ and U+0663, and the two
\* identifiers of the docstring.
Alphabet == {65, 66, 97, 98, 50, 95, 1635}
STR_CopperImpure == <<67, 111, 112, 112, 101, 114, 73, 109, 112, 117, 114, 101>>
STR_MaintenanceT2 == <<77, 97, 105, 110, 116, 101, 110, 97, 110, 99, 101, 84, 50>>
Identifiers ==
    UNION {[1..n -> Alphabet] : n \in 0..MaxLen} \cup {STR_CopperImpure, STR_MaintenanceT2}

\* The recipes of one building, by the number n of recipes before: first
\* 'Ab' + U+0660 with an output, then MaxCollide times 'Ab', with an output
\* when the suffix of that occurrence is a digit, and none otherwise.
CollideRecipeAt(n) ==
    IF n = 0 THEN {Recipe(ID_AbArabicZero, <<>>, <<Ing("Workers", 1)>>)}
    ELSE IF n <= MaxCollide
        THEN {Recipe(ID_Ab, <<>>, IF ChrBase + n \in Digit THEN <<Ing("Workers", 1)>> ELSE <<>>)}
    ELSE {}

(***************************************************************************)
(* Specifications                                                          *)
(***************************************************************************)
\* The whole script, on the product entries.
Next ==
    \/ \E v \in Versions : OpenProducts(v)
    \/ nProd < MaxProducts /\ \E it \in ProductEntries : ReadProduct(it)
    \/ \E v \in Versions : OpenMachines(v)
    \/ nBld < MaxBuildings /\ \E it \in PlainBuildings : ProcessBuilding(it)
    \/ nRec < MaxRecipes /\ \E rec \in PlainRecipes : ProcessRecipe(rec)
    \/ EndRecipes
    \/ WriteOutput

Spec == Init /\ [][Next]_vars

\* The whole script, on a fixed products.json and the building and recipe
\* entries.
NextExtract ==
    \/ OpenProducts("0.4.1")
    \/ \E it \in FixedProductAt(nProd) : ReadProduct(it)
    \/ OpenMachines("0.4.1")
    \/ nBld < MaxBuildings /\ \E it \in BuildingEntries : ProcessBuilding(it)
    \/ nRec < MaxRecipes /\ \E rec \in RecipeEntries : ProcessRecipe(rec)
    \/ EndRecipes
    \/ WriteOutput

SpecExtract == Init /\ [][NextExtract]_vars

\* The whole script, on one building with MaxCollide + 1 recipes.
NextCollide ==
    \/ OpenProducts("0.4.1")
    \/ OpenMachines("0.4.1")
    \/ nBld < 1 /\ ProcessBuilding(Building(ID_Ef, 1, 0, "", 0))
    \/ \E rec \in CollideRecipeAt(nRec) : ProcessRecipe(rec)
    \/ nRec = MaxCollide + 1 /\ EndRecipes
    \/ WriteOutput

SpecCollide == Init /\ [][NextCollide]_vars

\* convertCod2FL on every identifier.
InitTranslate ==
    /\ InitScript
    /\ codName \in Identifiers
    /\ translated = None
    /\ ingredients = None
    /\ ret = None

NextTranslate == Translate

SpecTranslate == InitTranslate /\ [][NextTranslate]_vars

\* convertIngredientList on every ingredient list, after the product loop.
NextResolve ==
    \/ \E v \in Versions : OpenProducts(v)
    \/ nProd < MaxProducts /\ \E it \in ProductEntries : ReadProduct(it)
    \/ \E v \in Versions : OpenMachines(v)
    \/ \E ings \in IngredientLists : Resolve(ings)

SpecResolve == Init /\ [][NextResolve]_vars

(***************************************************************************)
(* The Identifier Translator                                               *)
(***************************************************************************)
\* The segments of t between hyphens.
RECURSIVE SplitHyphen(_)
SplitHyphen(t) ==
    LET n == RunLen(t, 1, Int \ {Hyphen})
    IN  IF n = Len(t) THEN <<t>>
        ELSE <<SubSeq(t, 1, n)>> \o SplitHyphen(SubSeq(t, n + 2, Len(t)))

\* A lowercased token: a word of [a-z], two at least, or a digit 0-9 with at
\* most one letter after it.
IsLoweredToken(w) ==
    \/ Len(w) >= 2 /\ \A i \in 1..Len(w) : w[i] \in Lower
    \/ Len(w) \in {1, 2} /\ w[1] \in AsciiDigit /\ \A i \in 2..Len(w) : w[i] \in Lower

\* s has a substring the pattern matches.
HasToken(s) ==
    \E i \in 1..Len(s) :
        \/ s[i] \in Digit
        \/ i < Len(s) /\ s[i] \in Upper /\ s[i + 1] \in Upper \cup Lower

\* C8: whatever the input, convertCod2FL returns its tokens lowercased and
\* joined by single hyphens: only characters of [a-z0-9-], no hyphen first,
\* last or doubled (every segment between hyphens is a lowercased token), the
\* empty string exactly when the input has no token; 'CopperImpure' gives
\* 'copper-impure' and 'MaintenanceT2' gives two tokens.
C8_TranslatorCharset ==
    op = "Translate" =>
        /\ \A i \in 1..Len(translated) : translated[i] \in Lower \cup AsciiDigit \cup {Hyphen}
        /\ translated # <<>> =>
              \A i \in 1..Len(SplitHyphen(translated)) :
                  IsLoweredToken(SplitHyphen(translated)[i])
        /\ translated = <<>> <=> ~HasToken(codName)
        /\ codName = STR_CopperImpure =>
              translated = <<99, 111, 112, 112, 101, 114, 45, 105, 109, 112, 117, 114, 101>>
        /\ codName = STR_MaintenanceT2 => Len(SplitHyphen(translated)) = 2

\* The same, on the inputs whose characters are all ASCII.
C8_OnAsciiInput ==
    (\A i \in 1..Len(codName) : codName[i] \notin ArabicIndicDigit) => C8_TranslatorCharset

(***************************************************************************)
(* The Ingredient Resolver                                                 *)
(***************************************************************************)
\* The positions of ings whose name the index does not have.
Unresolved(ings) == {i \in 1..Len(ings) : ings[i].name \notin DOMAIN prodIndex}

\* The last position of ings whose name resolves to id.
LastFor(ings, id) ==
    CHOOSE i \in 1..Len(ings) :
        /\ prodIndex[ings[i].name] = id
        /\ \A j \in (i + 1)..Len(ings) : prodIndex[ings[j].name] # id

\* C1: a call of convertIngredientList on a list with a name that is not in
\* the index, wherever it stands, raises the error with a name of the list
\* that is not in the index and returns no mapping; on a list whose names are
\* all in the index it returns the mapping of index[name] to quantity over
\* the entries (of two entries with one id, the later one's quantity).
C1_AllOrNothing ==
    op = "Resolve" =>
        IF Unresolved(ingredients) # {}
            THEN /\ ret.raised
                 /\ \E i \in Unresolved(ingredients) : ret.arg = ingredients[i].name
                 /\ "value" \notin DOMAIN ret
            ELSE /\ ~ret.raised
                 /\ DOMAIN ret.value =
                        {prodIndex[ingredients[i].name] : i \in 1..Len(ingredients)}
                 /\ \A id \in DOMAIN ret.value :
                        ret.value[id] = ingredients[LastFor(ingredients, id)].quantity

\* A list whose first name resolves and whose last does not has been resolved.
C1_Witness ==
    /\ op = "Resolve"
    /\ Len(ingredients) >= 2
    /\ 1 \notin Unresolved(ingredients)
    /\ Len(ingredients) \in Unresolved(ingredients)
    /\ ret.raised

(***************************************************************************)
(* The Product Catalog Builder                                             *)
(***************************************************************************)
\* C3: once products.json is read, no two entries of the product list, the
\* default products included, have the same id (an entry whose normalized id
\* was seen before is skipped).
C3_ProductIdsUnique ==
    pc # "products" =>
        \A i, j \in 1..Len(prodList) : i # j => prodList[i].id # prodList[j].id

\* The first entry of the product list with display name n.
FirstNamed(n) ==
    prodList[CHOOSE i \in 1..Len(prodList) :
                 /\ prodList[i].name = n
                 /\ \A j \in 1..(i - 1) : prodList[j].name # n]

\* The entry it has a known type, a well-formed id, and its normalized id is
\* the id of no product so far.
FreshWellFormed(it) ==
    /\ ProdTypeMatch(it.type).matched
    /\ ProdTypeMatch(it.type).group \in ProductTypeKeys
    /\ ProductMatch(it.id).matched
    /\ \A i \in 1..Len(prodList) : prodList[i].id # convertCod2FL(ProductMatch(it.id).group)

\* C7: an entry of the name index is never overwritten; a product entry with
\* a fresh id whose display name is already in the index goes into the product
\* list and leaves the index alone, so the index always maps a name to the id
\* of the first product that carries it; a maintenance unit given by such a
\* name becomes that id in the consumption map, an ingredient given by it
\* becomes that id in the recipe, and the items written hold every product of
\* the list.
C7_FirstNameWins ==
    [][ /\ \A n \in DOMAIN prodIndex : n \in DOMAIN prodIndex' /\ prodIndex'[n] = prodIndex[n]
        /\ \A n \in DOMAIN prodIndex' : prodIndex'[n] = FirstNamed(n).id'
        /\ (op' = "ReadProduct" /\ FreshWellFormed(item') /\ item'.name \in DOMAIN prodIndex) =>
              /\ Len(prodList') = Len(prodList) + 1
              /\ prodList'[Len(prodList')].name = item'.name
              /\ prodList'[Len(prodList')].id = convertCod2FL(ProductMatch(item'.id).group)
              /\ SubSeq(prodList', 1, Len(prodList)) = prodList
              /\ prodIndex' = prodIndex
        /\ (op' = "ProcessBuilding" /\ Len(mnbList') = Len(mnbList) + 1
               /\ item'.maintenance_cost_units # "") =>
              LET cons == mnbList'[Len(mnbList')].machine.consumption
                  unit == FirstNamed(item'.maintenance_cost_units).id
              IN  unit \in DOMAIN cons /\ cons[unit] = item'.maintenance_cost_quantity
        /\ (op' = "ProcessRecipe" /\ Len(recipeList') = Len(recipeList) + 1) =>
              \A i \in 1..Len(recipe'.inputs) :
                  FirstNamed(recipe'.inputs[i].name).id \in DOMAIN recipeList'[Len(recipeList')].in
        /\ op' = "WriteOutput" =>
              \A i \in 1..Len(prodList) :
                  /\ output'[1].items[i].id = prodList[i].id
                  /\ output'[1].items[i].name = prodList[i].name
      ]_vars

\* Two products with one display name and two ids are in the items written,
\* and a building's maintenance unit of that name has become the first one's id.
C7_Witness ==
    /\ pc = "done"
    /\ Len(output) = 1
    /\ \E i, j \in 1..Len(prodList) :
          /\ i < j
          /\ output[1].items[i].name = output[1].items[j].name
          /\ output[1].items[i].id # output[1].items[j].id
          /\ FirstNamed(prodList[j].name) = prodList[i]
          /\ \E b \in 1..Len(mnbList) :
                prodList[i].id \in DOMAIN mnbList[b].machine.consumption

(***************************************************************************)
(* The version check                                                       *)
(***************************************************************************)
\* machines_and_buildings.json has been opened with another game_version than
\* products.json.
VersionMismatch == pc \in {"buildings", "recipes", "done"} /\ gameVersion # version

\* C6: when the two game versions differ the run ends with outcome 1 before
\* any building or recipe is processed and data.json is never written; when
\* they agree the run that has ended has written data.json, once; nothing is
\* written before the end.
C6_VersionMismatchFatal ==
    /\ VersionMismatch =>
          /\ pc = "done" /\ exitCode = "1"
          /\ output = <<>>
          /\ nBld = 0 /\ nRec = 0 /\ mnbList = <<>> /\ recipeList = <<>> /\ recipeIds = EmptyDict
    /\ Len(output) <= 1
    /\ (pc = "done" /\ ~VersionMismatch) => exitCode = "0" /\ Len(output) = 1
    /\ pc # "done" => output = <<>> /\ exitCode = "running"

\* The run has ended on a version mismatch after reading products.
C6_Witness ==
    /\ VersionMismatch
    /\ exitCode = "1"
    /\ nProd > 0

(***************************************************************************)
(* The Machine/Building and Recipe Extractor                               *)
(***************************************************************************)
\* C4: a building whose normalized id is the id of a product or of an earlier
\* building is rejected, so no building of the building list, and of the
\* items written, has the id of another item.
C4_SharedNamespace ==
    /\ \A b \in 1..Len(mnbList) :
          /\ \A p \in 1..Len(prodList) : prodList[p].id # mnbList[b].id
          /\ \A c \in 1..Len(mnbList) : c # b => mnbList[c].id # mnbList[b].id
    /\ \A d \in 1..Len(output) :
          \A i, j \in 1..Len(output[d].items) :
              (i # j /\ j > Len(prodList)) => output[d].items[i].id # output[d].items[j].id

\* Every name of the list l is in the name index.
Resolves(l) == \A i \in 1..Len(l) : l[i].name \in DOMAIN prodIndex

\* C2: every recipe processed, in whatever building, advances the one counter
\* of its normalized id by one; the first occurrence gets the bare id, the
\* k-th gets the id, a hyphen and chr(95 + k): -a for the second, -b for the
\* third.  Nothing else touches the counters.
C2_OccurrenceCounter ==
    [][ /\ op' = "ProcessRecipe" =>
              LET rID == convertCod2FL(recipe'.id)
                  k == Get(recipeIds, rID, 0) + 1
              IN  /\ recipeIds' = Put(recipeIds, rID, k)
                  /\ k = 1 => r'.id = rID
                  /\ k >= 2 => r'.id = rID \o <<45, 95 + k>>
                  /\ k = 2 => r'.id = rID \o <<45, 97>>
                  /\ k = 3 => r'.id = rID \o <<45, 98>>
        /\ op' # "ProcessRecipe" => recipeIds' = recipeIds
      ]_vars

\* Three recipes of one normalized id, of more than one building, are in the
\* recipe list as r, r-a, r-b.
C2_Witness ==
    /\ Len(recipeList) = 3
    /\ recipeList[2].id = recipeList[1].id \o <<45, 97>>
    /\ recipeList[3].id = recipeList[1].id \o <<45, 98>>
    /\ recipeList[1].producers # recipeList[3].producers

\* C5: a recipe processed goes to the end of the recipe list exactly if all
\* the names of its inputs and of its outputs are in the name index and it has
\* an output; otherwise the list is as before.  Either way the run goes on in
\* the same building, the index is as before, and no other step changes the
\* recipe list.
C5_RetentionCriterion ==
    [][ /\ op' = "ProcessRecipe" =>
              /\ IF Resolves(recipe'.inputs) /\ Resolves(recipe'.outputs) /\ recipe'.outputs # <<>>
                     THEN /\ Len(recipeList') = Len(recipeList) + 1
                          /\ SubSeq(recipeList', 1, Len(recipeList)) = recipeList
                          /\ recipeList'[Len(recipeList')] = r'
                          /\ r'.name = recipe'.name
                          /\ DOMAIN r'.in = {prodIndex[recipe'.inputs[i].name] :
                                                i \in 1..Len(recipe'.inputs)}
                          /\ DOMAIN r'.out = {prodIndex[recipe'.outputs[i].name] :
                                                 i \in 1..Len(recipe'.outputs)}
                     ELSE recipeList' = recipeList
              /\ pc' = "recipes" /\ pc = "recipes" /\ exitCode' = "running"
              /\ prodIndex' = prodIndex /\ mnbList' = mnbList /\ nBld' = nBld
        /\ op' # "ProcessRecipe" => recipeList' = recipeList
      ]_vars

\* In one building a recipe was dropped and a later one has just been kept.
C5_Witness ==
    /\ op = "ProcessRecipe"
    /\ nBld = 1
    /\ recipeList # <<>>
    /\ recipeList[Len(recipeList)] = r
    /\ nRec > Len(recipeList)
    /\ \E i \in 1..Len(recipeList) : recipeList[i].id = <<103, 104, 45, 97>>   \* 'gh-a'
    /\ \A i \in 1..Len(recipeList) : recipeList[i].id # <<103, 104>>           \* 'gh'

\* The building processed names a maintenance unit the index does not have.
UnitUnknown(it) ==
    it.maintenance_cost_units # "" /\ it.maintenance_cost_units \notin DOMAIN prodIndex

\* What a building step leaves alone when the building is skipped.
BuildingSkipped ==
    /\ mnbList' = mnbList /\ iconList' = iconList /\ recipeList' = recipeList
    /\ recipeIds' = recipeIds /\ prodList' = prodList /\ prodIndex' = prodIndex
    /\ pc' = "buildings" /\ exitCode' = "running"

\* The building of the step is at the end of the building list, with its icon.
BuildingEmitted ==
    /\ Len(mnbList') = Len(mnbList) + 1
    /\ SubSeq(mnbList', 1, Len(mnbList)) = mnbList
    /\ mnbList'[Len(mnbList')].id = convertCod2FL(item'.id)
    /\ mnbList'[Len(mnbList')].machine.speed = 1
    /\ iconList' = Append(iconList, [id |-> convertCod2FL(item'.id), icon |-> item'.icon_path])
    /\ recipeIds' = recipeIds /\ prodList' = prodList /\ prodIndex' = prodIndex

\* C9 as stated: a building with an unknown maintenance unit is skipped and
\* nothing but the loop position changes; any other building is emitted with
\* speed 1 and a consumption map that has 'worker' only if workers > 0,
\* 'electricity' only if electricity_consumed > 0, and the unit's id with the
\* maintenance quantity.
C9_AsStated ==
    [][ op' = "ProcessBuilding" =>
            IF UnitUnknown(item') THEN BuildingSkipped
            ELSE /\ BuildingEmitted
                 /\ LET cons == mnbList'[Len(mnbList')].machine.consumption
                    IN  /\ STR_worker \in DOMAIN cons => item'.workers > 0
                        /\ STR_electricity \in DOMAIN cons => item'.electricity_consumed > 0
                        /\ item'.maintenance_cost_units # "" =>
                              /\ prodIndex[item'.maintenance_cost_units] \in DOMAIN cons
                              /\ cons[prodIndex[item'.maintenance_cost_units]] =
                                     item'.maintenance_cost_quantity
      ]_vars

\* C9, amended: the same, but the consumption map has 'worker' only if
\* workers > 0 or the unit resolves to 'worker', and 'electricity' only if
\* electricity_consumed > 0 or the unit resolves to 'electricity'; its keys
\* are these and the unit's id, no others.
C9_SkipOrEmit ==
    [][ op' = "ProcessBuilding" =>
            IF UnitUnknown(item') THEN BuildingSkipped
            ELSE /\ BuildingEmitted
                 /\ LET cons == mnbList'[Len(mnbList')].machine.consumption
                        unit == IF item'.maintenance_cost_units # ""
                                    THEN {prodIndex[item'.maintenance_cost_units]} ELSE {}
                    IN  /\ DOMAIN cons =
                              {k \in {STR_worker} : item'.workers > 0}
                              \cup {k \in {STR_electricity} : item'.electricity_consumed > 0}
                              \cup unit
                        /\ STR_worker \in DOMAIN cons =>
                              item'.workers > 0 \/ STR_worker \in unit
                        /\ STR_electricity \in DOMAIN cons =>
                              item'.electricity_consumed > 0 \/ STR_electricity \in unit
                        /\ \A u \in unit : cons[u] = item'.maintenance_cost_quantity
                        /\ (STR_worker \in DOMAIN cons \ unit) => cons[STR_worker] = item'.workers
                        /\ (STR_electricity \in DOMAIN cons \ unit) =>
                              cons[STR_electricity] = item'.electricity_consumed
      ]_vars

\* A building with an unknown unit has just been skipped, after a building
\* without workers whose unit resolved to 'worker' was emitted.
C9_Witness ==
    /\ op = "ProcessBuilding"
    /\ UnitUnknown(item)
    /\ pc = "buildings"
    /\ nBld = 2
    /\ Len(mnbList) = 1
    /\ DOMAIN mnbList[1].machine.consumption = {STR_worker}
    /\ mnbList[1].machine.consumption[STR_worker] = 5

\* C10: the ids of the recipes of the recipe list are pairwise distinct,
\* whatever the buildings and recipes processed.
C10_RecipeIdsDistinct ==
    \A i, j \in 1..Len(recipeList) : i # j => recipeList[i].id # recipeList[j].id

====
